---- MODULE Spec2Model ----
(***************************************************************************)
(* The GoatCounter statistics bot (src/main.py): the rate-limit-aware      *)
(* fetch loop make_api_request, the rate-limit decision check_rate_limit,  *)
(* and the two command handlers stats and weekly_stats, run as coroutines  *)
(* on one asyncio event loop.                                              *)
(***************************************************************************)
EXTENDS Integers, Sequences, FiniteSets, TLC

VARIABLES
    config,       \* the module globals GOAT_SITE, GOAT_API_KEY, GOAT_BASE_URL
    queue,        \* command updates received and not yet handed to a handler
    service,      \* what a GET can end in: the events the remote service may produce
    loop,         \* the asyncio event loop: 0 when free, else the invocation running on it
    pc,           \* pc[i]: where invocation i stands
    cmd,          \* cmd[i]: "stats" or "weekly"
    request,      \* request[i]: the url and headers the handler passes to make_api_request
    max_retries,  \* max_retries[i]: the argument of make_api_request
    attempt,      \* attempt[i]: the loop variable of make_api_request
    log,          \* log[i]: what invocation i did, in order (gets, responses, sleeps, replies)
    result,       \* result[i]: how make_api_request ended (return value or exception)
    replies,      \* replies[i]: the texts passed to update.message.reply_text
    hits_in,      \* the payload handed to the aggregation
    message_out,  \* the message built from hits_in
    headers_in,   \* the headers handed to check_rate_limit
    wait_out      \* what check_rate_limit returned for headers_in

fetch_vars == <<config, queue, service, loop, pc, cmd, request, max_retries, attempt, log, result,
               replies>>
agg_vars   == <<hits_in, message_out>>
rate_vars  == <<headers_in, wait_out>>
vars       == <<fetch_vars, agg_vars, rate_vars>>

\* ------------------------------------------------------------------ bounds

MaxRetries == 3           \* largest max_retries argument explored
MaxHits == 6              \* longest hits payload explored

DefaultMaxRetries == 3    \* max_retries=3
TopN == 5                 \* [:5]
RetryWait == 1            \* asyncio.sleep(1)
DefaultLimit == 4         \* headers.get('X-Rate-Limit-Limit', 4)
DefaultRemaining == 4     \* headers.get('X-Rate-Limit-Remaining', 4)
DefaultReset == 0         \* headers.get('X-Rate-Limit-Reset', 0)

\* the command invocations that can be alive at once
Invocations == {1, 2}

\* ------------------------------------------------------- header parsing

H_LIMIT     == "X-Rate-Limit-Limit"
H_REMAINING == "X-Rate-Limit-Remaining"
H_RESET     == "X-Rate-Limit-Reset"

Digits == {"0", "1", "2", "3", "4", "5", "6", "7", "8", "9"}

DigitVal(c) ==
    CASE c = "0" -> 0 [] c = "1" -> 1 [] c = "2" -> 2 [] c = "3" -> 3 [] c = "4" -> 4
      [] c = "5" -> 5 [] c = "6" -> 6 [] c = "7" -> 7 [] c = "8" -> 8 [] c = "9" -> 9

RECURSIVE DecimalVal(_)
DecimalVal(s) ==
    IF s = <<>> THEN 0
    ELSE 10 * DecimalVal(SubSeq(s, 1, Len(s) - 1)) + DigitVal(s[Len(s)])

AllDigits(s) == Len(s) > 0 /\ \A k \in 1..Len(s) : s[k] \in Digits

\* int(text): a header value is a sequence of characters; an optional sign and
\* decimal digits parse, anything else raises ValueError.
int(s) ==
    IF AllDigits(s) THEN [ok |-> TRUE, value |-> DecimalVal(s)]
    ELSE IF Len(s) > 1 /\ s[1] = "-" /\ AllDigits(Tail(s))
         THEN [ok |-> TRUE, value |-> 0 - DecimalVal(Tail(s))]
    ELSE IF Len(s) > 1 /\ s[1] = "+" /\ AllDigits(Tail(s))
         THEN [ok |-> TRUE, value |-> DecimalVal(Tail(s))]
    ELSE [ok |-> FALSE, value |-> 0]

\* int(response.headers.get(name, default)): the default is already an integer.
header_int(headers, name, default) ==
    IF name \in DOMAIN headers THEN int(headers[name])
    ELSE [ok |-> TRUE, value |-> default]

\* (mutant) the wait is advised only once remaining has gone below zero
check_rate_limit_BelowZero(headers) ==
    LET limit     == header_int(headers, H_LIMIT, DefaultLimit)
        remaining == header_int(headers, H_REMAINING, DefaultRemaining)
        reset     == header_int(headers, H_RESET, DefaultReset)
    IN  IF ~(limit.ok /\ remaining.ok /\ reset.ok)
        THEN [raised |-> TRUE, value |-> 0]
        ELSE IF remaining.value < 0
             THEN [raised |-> FALSE, value |-> reset.value]
             ELSE [raised |-> FALSE, value |-> 0]

\* (mutant) with nothing remaining a wait is always advised, of a second when
\* the reset is immediate
check_rate_limit_AlwaysWaits(headers) ==
    LET limit     == header_int(headers, H_LIMIT, DefaultLimit)
        remaining == header_int(headers, H_REMAINING, DefaultRemaining)
        reset     == header_int(headers, H_RESET, DefaultReset)
    IN  IF ~(limit.ok /\ remaining.ok /\ reset.ok)
        THEN [raised |-> TRUE, value |-> 0]
        ELSE IF remaining.value <= 0
             THEN [raised |-> FALSE, value |-> IF reset.value = 0 THEN 1 ELSE reset.value]
             ELSE [raised |-> FALSE, value |-> 0]

\* check_rate_limit: the seconds to wait, or the ValueError of a header that
\* is not a number (the three int() calls run before the decision).
check_rate_limit(headers) ==
    LET limit     == header_int(headers, H_LIMIT, DefaultLimit)
        remaining == header_int(headers, H_REMAINING, DefaultRemaining)
        reset     == header_int(headers, H_RESET, DefaultReset)
    IN  IF ~(limit.ok /\ remaining.ok /\ reset.ok)
        THEN [raised |-> TRUE, value |-> 0]
        ELSE IF remaining.value <= 0
             THEN [raised |-> FALSE, value |-> reset.value]
             ELSE [raised |-> FALSE, value |-> 0]

\* ------------------------------------------------------------ aggregation

Min(a, b) == IF a <= b THEN a ELSE b

\* hit.get('count', 0), hit.get('is_unique', False), hit.get('path', 'Unknown')
hit_count(hit)     == IF "count" \in DOMAIN hit THEN hit.count ELSE 0
hit_is_unique(hit) == IF "is_unique" \in DOMAIN hit THEN hit.is_unique ELSE FALSE
hit_path(hit)      == IF "path" \in DOMAIN hit THEN hit.path ELSE "Unknown"

\* data.get('hits', [])
data_hits(data) == IF "hits" \in DOMAIN data THEN data.hits ELSE <<>>

\* sum(hit.get('count', 0) for hit in ...)
RECURSIVE total_pageviews(_)
total_pageviews(hits) ==
    IF hits = <<>> THEN 0
    ELSE total_pageviews(SubSeq(hits, 1, Len(hits) - 1)) + hit_count(hits[Len(hits)])

\* (mutant) a unique hit is weighted by its view count
RECURSIVE total_visitors_Weighted(_)
total_visitors_Weighted(hits) ==
    IF hits = <<>> THEN 0
    ELSE total_visitors_Weighted(SubSeq(hits, 1, Len(hits) - 1))
         + (IF hit_is_unique(hits[Len(hits)]) THEN hit_count(hits[Len(hits)]) ELSE 0)

\* sum(1 for hit in ... if hit.get('is_unique', False))
RECURSIVE total_visitors(_)
total_visitors(hits) ==
    IF hits = <<>> THEN 0
    ELSE total_visitors(SubSeq(hits, 1, Len(hits) - 1))
         + (IF hit_is_unique(hits[Len(hits)]) THEN 1 ELSE 0)

\* path_counts[path] = path_counts.get(path, 0) + n on a dict, which keeps its
\* keys in the order they were first inserted: a sequence of (path, views).
dict_add(d, path, n) ==
    IF \E k \in 1..Len(d) : d[k].path = path
    THEN [k \in 1..Len(d) |->
            IF d[k].path = path THEN [path |-> path, views |-> d[k].views + n] ELSE d[k]]
    ELSE Append(d, [path |-> path, views |-> n])

\* the loop `for hit in data['hits']` filling path_counts
RECURSIVE path_counts(_)
path_counts(hits) ==
    IF hits = <<>> THEN <<>>
    ELSE LET hit == hits[Len(hits)]
         IN  dict_add(path_counts(SubSeq(hits, 1, Len(hits) - 1)),
                      hit_path(hit), hit_count(hit))

\* (mutant) an unstable sort: x goes before the entries with as many views
insert_desc_Unstable(s, x) ==
    LET smaller == {k \in 1..Len(s) : s[k].views <= x.views}
        pos     == IF smaller = {} THEN Len(s) + 1
                   ELSE CHOOSE k \in smaller : \A m \in smaller : k <= m
    IN  SubSeq(s, 1, pos - 1) \o <<x>> \o SubSeq(s, pos, Len(s))

\* One insertion of the stable descending sort: x goes before the first entry
\* with strictly fewer views, so after every entry with as many.
insert_desc(s, x) ==
    LET smaller == {k \in 1..Len(s) : s[k].views < x.views}
        pos     == IF smaller = {} THEN Len(s) + 1
                   ELSE CHOOSE k \in smaller : \A m \in smaller : k <= m
    IN  SubSeq(s, 1, pos - 1) \o <<x>> \o SubSeq(s, pos, Len(s))

\* sorted(path_counts.items(), key=lambda x: x[1], reverse=True): stable
RECURSIVE sorted_desc(_)
sorted_desc(items) ==
    IF items = <<>> THEN <<>>
    ELSE insert_desc(sorted_desc(SubSeq(items, 1, Len(items) - 1)), items[Len(items)])

\* sorted(...)[:5]
top_paths(hits) ==
    LET ranked == sorted_desc(path_counts(hits))
    IN  SubSeq(ranked, 1, Min(TopN, Len(ranked)))

\* enumerate(..., 1): the lines "{i}. {path}: {views} views"
ranked_lines(top) ==
    [k \in 1..Len(top) |-> [line |-> "rank", i |-> k, path |-> top[k].path, views |-> top[k].views]]

\* the same reply with the section header written whatever the payload holds
message_lines_AlwaysHeader(title, header, data) ==
    LET hits == data_hits(data)
    IN  << [line |-> "title", title |-> title],
           [line |-> "visitors", n |-> total_visitors(hits)],
           [line |-> "pageviews", n |-> total_pageviews(hits)],
           [line |-> "header", header |-> header] >>
        \o ranked_lines(top_paths(hits))

\* The text of a reply is a sequence of lines; the window bounds of the title
\* line are left out (no timestamps are modelled).
message_lines(title, header, data) ==
    LET hits == data_hits(data)
    IN  << [line |-> "title", title |-> title],
           [line |-> "visitors", n |-> total_visitors(hits)],
           [line |-> "pageviews", n |-> total_pageviews(hits)] >>
        \o (IF hits # <<>>
            THEN <<[line |-> "header", header |-> header]>> \o ranked_lines(top_paths(hits))
            ELSE <<>>)

\* stats, the lines between the fetch and reply_text
stats_message(data) == message_lines("GoatCounter Stats", "Top pages:", data)

\* weekly_stats, the lines between the fetch and reply_text
weekly_message(data) == message_lines("GoatCounter Weekly Stats", "Top pages this week:", data)

\* ------------------------------------------------------ make_api_request

\* str(e) of the exceptions that can cross make_api_request and the handlers
\* (a text is a sequence of pieces: literals, and values formatted into it)
Lit(s) == [lit |-> s]
Str(s) == [str |-> s]

StatusText(status) ==
    IF status < 500 THEN Lit("Client Error") ELSE Lit("Server Error")

RequestException(cause) == [type |-> "RequestException", text |-> <<Lit(cause)>>]
HTTPError(status)       == [type |-> "RequestException", text |-> <<[num |-> status], StatusText(status)>>]
JSONDecodeError         == [type |-> "RequestException", text |-> <<Lit("Expecting value")>>]
ValueError              == [type |-> "ValueError", text |-> <<Lit("invalid literal for int()")>>]
AttributeError          == [type |-> "AttributeError", text |-> <<Lit("'NoneType' object has no attribute 'get'")>>]

\* json.dumps(x): the JSON text of x, not x itself
json_dumps(x) == [json |-> x]

\* data.get('error', json.dumps(data.get('errors', 'Unknown error')))
error_msg(data) ==
    IF "error" \in DOMAIN data THEN Str(data.error)
    ELSE json_dumps(IF "errors" \in DOMAIN data THEN data.errors ELSE <<"Unknown error">>)

\* raise Exception(f"API error: {error_msg}")
ApiException(data) == [type |-> "Exception", text |-> <<Lit("API error: "), error_msg(data)>>]

\* response.raise_for_status(): raises for a 4xx or 5xx status
raises_for_status(response) == response.status >= 400 /\ response.status < 600

\* What one pass of the loop body does next: sleep (and go round again),
\* return a value, or let an exception leave the function.
Sleep(secs, line) == [do |-> "sleep", secs |-> secs, line |-> line]
Return(data)      == [do |-> "return", none |-> FALSE, data |-> data]
ReturnNone        == [do |-> "return", none |-> TRUE]
Raise(exc)        == [do |-> "raise", exc |-> exc]

\* (mutant) the last failure is reported as a generic exhaustion, not by its cause
except_RequestException_Generic(att, retries, exc) ==
    IF att = retries - 1
    THEN Raise(RequestException("Max retries exceeded"))
    ELSE Sleep(RetryWait, 95)

\* except requests.exceptions.RequestException as e: re-raise e on the last
\* attempt, else sleep one second and retry
except_RequestException(att, retries, exc) ==
    IF att = retries - 1 THEN Raise(exc) ELSE Sleep(RetryWait, 95)

\* (mutant) a service-reported error is retried like a transport failure
try_body_RetryServiceError(response, att, retries, json_is_request_exc) ==
    LET wait_time == check_rate_limit(response.headers)
    IN  IF wait_time.raised THEN Raise(ValueError)
        ELSE IF wait_time.value > 0 THEN Sleep(wait_time.value, 76)
        ELSE IF raises_for_status(response)
             THEN except_RequestException(att, retries, HTTPError(response.status))
        ELSE IF ~response.body.json
             THEN IF json_is_request_exc
                  THEN except_RequestException(att, retries, JSONDecodeError)
                  ELSE Raise(ValueError)
        ELSE IF "error" \in DOMAIN response.body.data \/ "errors" \in DOMAIN response.body.data
             THEN except_RequestException(att, retries, ApiException(response.body.data))
        ELSE Return(response.body.data)

\* (mutant) a rate-limited response is retried after the fixed one-second wait
try_body_FixedWait(response, att, retries, json_is_request_exc) ==
    LET wait_time == check_rate_limit(response.headers)
    IN  IF wait_time.raised THEN Raise(ValueError)
        ELSE IF wait_time.value > 0 THEN Sleep(RetryWait, 76)
        ELSE IF raises_for_status(response)
             THEN except_RequestException(att, retries, HTTPError(response.status))
        ELSE IF ~response.body.json
             THEN IF json_is_request_exc
                  THEN except_RequestException(att, retries, JSONDecodeError)
                  ELSE Raise(ValueError)
        ELSE IF "error" \in DOMAIN response.body.data \/ "errors" \in DOMAIN response.body.data
             THEN Raise(ApiException(response.body.data))
        ELSE Return(response.body.data)

\* (mutant) the status check and the body parse come before the rate-limit
\* decision
try_body_StatusFirst(response, att, retries, json_is_request_exc) ==
    LET wait_time == check_rate_limit(response.headers)
    IN  IF raises_for_status(response)
             THEN except_RequestException(att, retries, HTTPError(response.status))
        ELSE IF ~response.body.json
             THEN IF json_is_request_exc
                  THEN except_RequestException(att, retries, JSONDecodeError)
                  ELSE Raise(ValueError)
        ELSE IF "error" \in DOMAIN response.body.data \/ "errors" \in DOMAIN response.body.data
             THEN Raise(ApiException(response.body.data))
        ELSE IF wait_time.raised THEN Raise(ValueError)
        ELSE IF wait_time.value > 0 THEN Sleep(wait_time.value, 76)
        ELSE Return(response.body.data)

\* (mutant) no wait after a rate-limited last attempt: the function is left
\* at once, as after a transport failure
try_body_NoWaitOnLast(response, att, retries, json_is_request_exc) ==
    LET wait_time == check_rate_limit(response.headers)
    IN  IF wait_time.raised THEN Raise(ValueError)
        ELSE IF wait_time.value > 0
             THEN IF att = retries - 1 THEN ReturnNone ELSE Sleep(wait_time.value, 76)
        ELSE IF raises_for_status(response)
             THEN except_RequestException(att, retries, HTTPError(response.status))
        ELSE IF ~response.body.json
             THEN IF json_is_request_exc
                  THEN except_RequestException(att, retries, JSONDecodeError)
                  ELSE Raise(ValueError)
        ELSE IF "error" \in DOMAIN response.body.data \/ "errors" \in DOMAIN response.body.data
             THEN Raise(ApiException(response.body.data))
        ELSE Return(response.body.data)

\* The try body once requests.get has returned `response`. json_is_request_exc:
\* whether the installed requests raises its JSONDecodeError as a
\* RequestException (2.27 and later) or as a plain ValueError (before).
try_body(response, att, retries, json_is_request_exc) ==
    LET wait_time == check_rate_limit(response.headers)
    IN  IF wait_time.raised THEN Raise(ValueError)
        ELSE IF wait_time.value > 0 THEN Sleep(wait_time.value, 76)
        ELSE IF raises_for_status(response)
             THEN except_RequestException(att, retries, HTTPError(response.status))
        ELSE IF ~response.body.json
             THEN IF json_is_request_exc
                  THEN except_RequestException(att, retries, JSONDecodeError)
                  ELSE Raise(ValueError)
        ELSE IF "error" \in DOMAIN response.body.data \/ "errors" \in DOMAIN response.body.data
             THEN Raise(ApiException(response.body.data))
        ELSE Return(response.body.data)

\* ---------------------------------------------------------------- handlers

\* reply_text(f"Error: {str(e)}")
error_reply(exc) == <<[line |-> "error", text |-> exc.text]>>

\* stats from the return of make_api_request on: data.get on None raises
\* AttributeError, which the handler's `except Exception` turns into a reply.
stats(outcome) ==
    IF outcome.do = "raise" THEN error_reply(outcome.exc)
    ELSE IF outcome.none THEN error_reply(AttributeError)
    ELSE stats_message(outcome.data)

\* weekly_stats from the return of make_api_request on
weekly_stats(outcome) ==
    IF outcome.do = "raise" THEN error_reply(outcome.exc)
    ELSE IF outcome.none THEN error_reply(AttributeError)
    ELSE weekly_message(outcome.data)

handler_reply(c, outcome) == IF c = "stats" THEN stats(outcome) ELSE weekly_stats(outcome)

\* ------------------------------------------------------------------ inputs

Headers(remaining, reset) == (H_REMAINING :> remaining) @@ (H_RESET :> reset)
NoHeaders == [h \in {} |-> <<>>]

Json(data) == [json |-> TRUE, data |-> data]
NotJson    == [json |-> FALSE]

Response(headers, status, body) ==
    [fail |-> FALSE, response |-> [headers |-> headers, status |-> status, body |-> body]]
Failure(cause) == [fail |-> TRUE, cause |-> cause]

ExampleHits ==
    << [path |-> "/a", count |-> 10, is_unique |-> TRUE],
       [path |-> "/a", count |-> 5, is_unique |-> FALSE],
       [path |-> "/b", count |-> 3, is_unique |-> TRUE] >>

\* the (status, body) pairs the service answers with
ServicePayloads ==
    { <<200, Json([hits |-> ExampleHits])>>,
      <<200, Json([hits |-> <<>>])>>,
      <<200, Json([more |-> FALSE])>>,
      <<200, Json([error |-> "bad token"])>>,
      <<200, Json([errors |-> <<"bad start">>])>>,
      <<200, Json([error |-> "no such site", errors |-> <<"bad start">>])>>,
      <<200, NotJson>>,
      <<500, Json([error |-> "bad token"])>> }

\* the headers that come with any of them: none, remaining=0 with reset=0,
\* remaining=1 with reset=5
ServiceHeaders ==
    { NoHeaders, Headers(<<"0">>, <<"0">>), Headers(<<"1">>, <<"5">>) }

\* what comes with remaining=0 and reset=5
ThrottledPayloads ==
    { <<200, Json([hits |-> ExampleHits])>>,
      <<200, Json([error |-> "bad token"])>>,
      <<500, Json([error |-> "bad token"])>> }

Service ==
    { Failure("ConnectionError"), Failure("Timeout") }
    \cup { Response(h, p[1], p[2]) : h \in ServiceHeaders, p \in ServicePayloads }
    \cup { Response(Headers(<<"0">>, <<"5">>), p[1], p[2]) : p \in ThrottledPayloads }
    \cup { Response(Headers(<<"x">>, <<"5">>), 200, Json([hits |-> ExampleHits])) }

\* the service of the runs with two invocations alive at once
SmallService ==
    { Failure("ConnectionError"),
      Response(Headers(<<"0">>, <<"5">>), 200, Json([hits |-> ExampleHits])),
      Response(NoHeaders, 200, Json([hits |-> ExampleHits])),
      Response(NoHeaders, 200, Json([error |-> "bad token"])) }

Commands == {"stats", "weekly"}

\* the module globals once the module is loaded: the two settings read from
\* the environment and the base URL built from the site name
Environment ==
    LET site == "mysite"
    IN  [GOAT_SITE     |-> site,
         GOAT_API_KEY  |-> "secret",
         GOAT_BASE_URL |-> <<"https://", site, ".goatcounter.com/api/v0">>]

\* the url and the Authorization header both handlers build from the globals
handler_request(globals) ==
    [url           |-> globals.GOAT_BASE_URL \o <<"/stats/hits">>,
     Authorization |-> <<"Bearer ", globals.GOAT_API_KEY>>]

\* no handler has run yet
NoRequest == [url |-> <<>>, Authorization |-> <<>>]

\* ------------------------------------------------------------------ actions

Pending == [do |-> "pending"]

\* (mutant) the handler ends without a reply when the fetch returned None
Finish_SilentOnNone(i, events, outcome) ==
    LET text == handler_reply(cmd[i], outcome)
        none == outcome.do = "return" /\ outcome.none
    IN  /\ result' = [result EXCEPT ![i] = outcome]
        /\ replies' = [replies EXCEPT ![i] = IF none THEN @ ELSE Append(@, text)]
        /\ log' = [log EXCEPT ![i] = @ \o events \o (IF none THEN <<>> ELSE <<[ev |-> "reply"]>>)]
        /\ pc' = [pc EXCEPT ![i] = IF none THEN "done" ELSE "replying"]
        /\ loop' = 0

\* The rest of the handler once make_api_request has ended in `outcome`: the
\* reply is built and reply_text is awaited, which frees the event loop.
Finish(i, events, outcome) ==
    LET text == handler_reply(cmd[i], outcome)
    IN  /\ result' = [result EXCEPT ![i] = outcome]
        /\ replies' = [replies EXCEPT ![i] = Append(@, text)]
        /\ log' = [log EXCEPT ![i] = @ \o events \o <<[ev |-> "reply"]>>]
        /\ pc' = [pc EXCEPT ![i] = "replying"]
        /\ loop' = 0

\* What follows one pass of the loop body: asyncio.sleep frees the event
\* loop; a return or an exception goes back into the handler.
Continue(i, events, step) ==
    IF step.do = "sleep"
    THEN /\ log' = [log EXCEPT ![i] =
                       @ \o events \o <<[ev |-> "sleep", secs |-> step.secs, line |-> step.line]>>]
         /\ pc' = [pc EXCEPT ![i] = "sleeping"]
         /\ loop' = 0
         /\ UNCHANGED <<result, replies>>
    ELSE Finish(i, events, step)

\* requests.get(...): a blocking call, the coroutine keeps the event loop
IssueGet(i, att) ==
    /\ log' = [log EXCEPT ![i] = Append(@, [ev |-> "get", attempt |-> att])]
    /\ pc' = [pc EXCEPT ![i] = "get"]
    /\ loop' = i
    /\ UNCHANGED <<result, replies>>

\* The dispatcher starts the handler of a command: the handler builds the
\* query, enters make_api_request and issues the first GET. A handler can
\* start whenever the event loop is free, the most concurrency the
\* application built in main can give.
Dispatch(i) ==
    /\ i \in queue
    /\ loop = 0
    /\ \E c \in Commands, n \in 1..MaxRetries :
          /\ cmd' = [cmd EXCEPT ![i] = c]
          /\ max_retries' = [max_retries EXCEPT ![i] = n]
    /\ request' = [request EXCEPT ![i] = handler_request(config)]
    /\ queue' = queue \ {i}
    /\ attempt' = [attempt EXCEPT ![i] = 0]
    /\ IssueGet(i, 0)
    /\ UNCHANGED <<config, service, agg_vars, rate_vars>>

\* requests.get raises a RequestException (no connection, a timeout)
GetRaises(i) ==
    /\ pc[i] = "get"
    /\ loop = i
    /\ \E e \in service :
          /\ e.fail
          /\ Continue(i, <<[ev |-> "fail", cause |-> e.cause]>>,
                      except_RequestException(attempt[i], max_retries[i],
                                              RequestException(e.cause)))
    /\ UNCHANGED <<config, queue, service, cmd, request, max_retries, attempt, agg_vars,
                   rate_vars>>

\* requests.get returns a response
GetReturns(i) ==
    /\ pc[i] = "get"
    /\ loop = i
    /\ \E e \in service, json_is_request_exc \in BOOLEAN :
          /\ ~e.fail
          /\ Continue(i, <<[ev |-> "response", response |-> e.response]>>,
                      try_body(e.response, attempt[i], max_retries[i], json_is_request_exc))
    /\ UNCHANGED <<config, queue, service, cmd, request, max_retries, attempt, agg_vars,
                   rate_vars>>

\* (mutant) a rate-limit wait does not use up an attempt: after the sleep of
\* line 76 the same attempt is made again
SleepReturns_FreeRateLimitWait(i) ==
    LET free == log[i][Len(log[i])].line = 76
        next == IF free THEN attempt[i] ELSE attempt[i] + 1
    IN  /\ pc[i] = "sleeping"
        /\ loop = 0
        /\ attempt' = [attempt EXCEPT ![i] = next]
        /\ IF next < max_retries[i]
           THEN IssueGet(i, next)
           ELSE Finish(i, <<>>, ReturnNone)
        /\ UNCHANGED <<config, queue, service, cmd, request, max_retries, agg_vars, rate_vars>>

\* (mutant) the loop variable is one counter for the whole module, so a pass
\* of one invocation's loop moves every invocation on
SleepReturns_SharedCounter(i) ==
    /\ pc[i] = "sleeping"
    /\ loop = 0
    /\ attempt' = [j \in Invocations |-> attempt[i] + 1]
    /\ IF attempt[i] + 1 < max_retries[i]
       THEN IssueGet(i, attempt[i] + 1)
       ELSE Finish(i, <<>>, ReturnNone)
    /\ UNCHANGED <<config, queue, service, cmd, request, max_retries, agg_vars, rate_vars>>

\* asyncio.sleep returns: the next pass of `for attempt in range(max_retries)`
\* issues its GET, or the loop is over and the function returns None.
SleepReturns(i) ==
    /\ pc[i] = "sleeping"
    /\ loop = 0
    /\ attempt' = [attempt EXCEPT ![i] = @ + 1]
    /\ IF attempt[i] + 1 < max_retries[i]
       THEN IssueGet(i, attempt[i] + 1)
       ELSE Finish(i, <<>>, ReturnNone)
    /\ UNCHANGED <<config, queue, service, cmd, request, max_retries, agg_vars, rate_vars>>

\* reply_text returns and the handler ends
ReplyReturns(i) ==
    /\ pc[i] = "replying"
    /\ loop = 0
    /\ pc' = [pc EXCEPT ![i] = "done"]
    /\ UNCHANGED <<config, queue, service, loop, cmd, request, max_retries, attempt, log,
                   result, replies, agg_vars, rate_vars>>

Step(i) == Dispatch(i) \/ GetRaises(i) \/ GetReturns(i) \/ SleepReturns(i) \/ ReplyReturns(i)

InitFetch(updates, svc) ==
    /\ config = Environment
    /\ queue = updates
    /\ service = svc
    /\ loop = 0
    /\ pc = [i \in Invocations |-> "idle"]
    /\ cmd = [i \in Invocations |-> "stats"]
    /\ request = [i \in Invocations |-> NoRequest]
    /\ max_retries = [i \in Invocations |-> DefaultMaxRetries]
    /\ attempt = [i \in Invocations |-> 0]
    /\ log = [i \in Invocations |-> <<>>]
    /\ result = [i \in Invocations |-> Pending]
    /\ replies = [i \in Invocations |-> <<>>]

InitAggIdle == hits_in = <<>> /\ message_out = [stats |-> <<>>, weekly |-> <<>>]
InitRateIdle == headers_in = NoHeaders /\ wait_out = [raised |-> FALSE, value |-> 0]

\* one command, the full service
Init == InitFetch({1}, Service) /\ InitAggIdle /\ InitRateIdle

Next ==
    \/ \E i \in Invocations : Dispatch(i)
    \/ \E i \in Invocations : GetRaises(i)
    \/ \E i \in Invocations : GetReturns(i)
    \/ \E i \in Invocations : SleepReturns(i)
    \/ \E i \in Invocations : ReplyReturns(i)

Spec == Init /\ [][Next]_vars

\* two commands at once
InitConc == InitFetch(Invocations, SmallService) /\ InitAggIdle /\ InitRateIdle

SpecConc == InitConc /\ [][Next]_vars

\* --------------------------------------------------- the aggregation alone

\* the hit records payloads are made of: six paths (one of them missing),
\* counts that tie and counts that do not, flags present and missing
HitRecords ==
    { [path |-> "/a", count |-> 2, is_unique |-> TRUE],
      [path |-> "/b", count |-> 1, is_unique |-> FALSE],
      [path |-> "/c", count |-> 1, is_unique |-> TRUE],
      [path |-> "/d", count |-> 0],
      [path |-> "/e", is_unique |-> TRUE],
      [count |-> 1, is_unique |-> FALSE] }

\* what each of the two handlers replies to a fetch that returned `hits`
BothMessages(hits) ==
    [stats  |-> stats(Return([hits |-> hits])),
     weekly |-> weekly_stats(Return([hits |-> hits]))]

\* both handlers are handed a payload one record longer than the last one
Aggregate ==
    /\ Len(hits_in) < MaxHits
    /\ \E h \in HitRecords :
          /\ hits_in' = Append(hits_in, h)
          /\ message_out' = BothMessages(hits_in')
    /\ UNCHANGED <<fetch_vars, rate_vars>>

InitAgg ==
    /\ InitFetch({}, {})
    /\ InitRateIdle
    /\ hits_in \in {<<>>, ExampleHits}
    /\ message_out = BothMessages(hits_in)

NextAgg == Aggregate

SpecAgg == InitAgg /\ [][NextAgg]_vars

\* ------------------------------------------------- check_rate_limit alone

LimitValues     == { <<"4">>, <<"0">>, <<"x">> }
RemainingValues == { <<"0">>, <<"1">>, <<"4">>, <<"-", "1">>, <<"x">> }
ResetValues     == { <<"0">>, <<"5">>, <<"6", "0">>, <<"x">> }

\* every choice of present and absent rate-limit headers
HeaderSets ==
    { f \in UNION { [D -> LimitValues \cup RemainingValues \cup ResetValues] :
                      D \in SUBSET {H_LIMIT, H_REMAINING, H_RESET} } :
        /\ H_LIMIT \in DOMAIN f => f[H_LIMIT] \in LimitValues
        /\ H_REMAINING \in DOMAIN f => f[H_REMAINING] \in RemainingValues
        /\ H_RESET \in DOMAIN f => f[H_RESET] \in ResetValues }

\* one call of check_rate_limit, on any headers, after any earlier call
CheckRateLimit ==
    /\ \E h \in HeaderSets :
          /\ headers_in' = h
          /\ wait_out' = check_rate_limit(h)
    /\ UNCHANGED <<fetch_vars, agg_vars>>

InitRate ==
    /\ InitFetch({}, {})
    /\ InitAggIdle
    /\ headers_in = NoHeaders
    /\ wait_out = check_rate_limit(NoHeaders)

NextRate == CheckRateLimit

SpecRate == InitRate /\ [][NextRate]_vars

\* --------------------------------------------------------- reading the log

Gets(i)       == SelectSeq(log[i], LAMBDA e : e.ev = "get")
Sleeps(i)     == SelectSeq(log[i], LAMBDA e : e.ev = "sleep")
Answers(i)    == SelectSeq(log[i], LAMBDA e : e.ev \in {"fail", "response"})
FetchOver(i)  == result[i] # Pending

\* the number a header value stands for, read off the value itself
NumberOf(v) ==
    CASE v = <<"0">> -> 0 [] v = <<"1">> -> 1 [] v = <<"4">> -> 4 [] v = <<"5">> -> 5
      [] v = <<"6", "0">> -> 60 [] v = <<"-", "1">> -> 0 - 1

IsNumber(v) == v \in { <<"0">>, <<"1">>, <<"4">>, <<"5">>, <<"6", "0">>, <<"-", "1">> }

HeadersParse(h) == \A n \in DOMAIN h : IsNumber(h[n])
RemainingOf(h)  == IF H_REMAINING \in DOMAIN h THEN NumberOf(h[H_REMAINING]) ELSE 4
ResetOf(h)      == IF H_RESET \in DOMAIN h THEN NumberOf(h[H_RESET]) ELSE 0

\* a response that asks for a wait: remaining <= 0 and reset_seconds > 0
RateLimited(r) == HeadersParse(r.headers) /\ RemainingOf(r.headers) <= 0 /\ ResetOf(r.headers) > 0
\* a response that asks for none
NoWait(r) == HeadersParse(r.headers) /\ (RemainingOf(r.headers) > 0 \/ ResetOf(r.headers) = 0)

HasErrorField(r) ==
    r.body.json /\ ("error" \in DOMAIN r.body.data \/ "errors" \in DOMAIN r.body.data)

\* the three variants of a fetch outcome
IsSuccess(o)        == o.do = "return" /\ ~o.none
IsServiceError(o)   == o.do = "raise" /\ o.exc.type = "Exception"
IsTransportError(o) == o.do = "raise" /\ o.exc.type = "RequestException"

\* the message of the service in the text of a ServiceError
CarriesServiceMessage(o, data) ==
    \E k \in 1..Len(o.exc.text) :
        IF "error" \in DOMAIN data
        THEN o.exc.text[k] = [str |-> data.error]
        ELSE o.exc.text[k] = [json |-> data.errors]

\* ------------------------------------------------------------------ claims

\* C1: one call of make_api_request issues at most max_retries GETs, whatever
\* the mix of transport failures, rate-limited and normal responses: both
\* kinds of retry advance the one loop counter `attempt`, and the number of
\* GETs issued is always attempt + 1, capped at max_retries.
C1_AtMostMaxAttempts ==
    \A i \in Invocations :
        pc[i] # "idle" =>
            /\ Len(Gets(i)) <= max_retries[i]
            /\ Len(Gets(i)) = Min(attempt[i] + 1, max_retries[i])

\* C1 witness: a finished fetch that used all of its 3 attempts on a transport
\* failure, a rate-limit wait and a normal response.
C1_Witness ==
    /\ pc[1] = "done"
    /\ max_retries[1] = 3
    /\ Len(Gets(1)) = 3
    /\ \E k \in 1..Len(log[1]) : log[1][k].ev = "fail"
    /\ \E k \in 1..Len(log[1]) : log[1][k].ev = "sleep" /\ log[1][k].line = 76
    /\ IsSuccess(result[1])

AllRateLimited(i) ==
    \A k \in 1..Len(Answers(i)) :
        Answers(i)[k].ev = "response" /\ RateLimited(Answers(i)[k].response)

\* C3: when every one of the max_retries attempts ends in a rate-limit wait,
\* the fetch ends in a TransportError: its result is one of Success,
\* ServiceError, TransportError and never a result with no variant.
C3_ExhaustionIsTransportError ==
    \A i \in Invocations :
        (FetchOver(i) /\ AllRateLimited(i) /\ Len(Answers(i)) = max_retries[i]) =>
            /\ IsSuccess(result[i]) \/ IsServiceError(result[i]) \/ IsTransportError(result[i])
            /\ IsTransportError(result[i])

\* what a transport-level failure of an attempt is: requests.get raised, or
\* the response asks for no wait and has an error status
TransportFailure(e) ==
    \/ e.ev = "fail"
    \/ e.ev = "response" /\ NoWait(e.response) /\ e.response.status >= 400

\* the exception a transport-level failure stands for
CauseOf(e) ==
    IF e.ev = "fail" THEN RequestException(e.cause) ELSE HTTPError(e.response.status)

AllTransportFailures(i) ==
    /\ Len(Answers(i)) = max_retries[i]
    /\ \A k \in 1..Len(Answers(i)) : TransportFailure(Answers(i)[k])

\* C4: when all n = max_retries attempts fail at transport level the fetch
\* makes exactly n GETs, sleeps exactly 1 second after each attempt but the
\* last (n - 1 sleeps, each right after its failure and right before the next
\* GET) and raises the exception of the n-th failure.
C4_AllTransportFailures ==
    \A i \in Invocations :
        AllTransportFailures(i) =>
            LET n == max_retries[i] IN
            /\ FetchOver(i)
            /\ Len(Gets(i)) = n
            /\ Len(Sleeps(i)) = n - 1
            /\ \A k \in 1..(n - 1) :
                  /\ log[i][3 * k - 2].ev = "get"
                  /\ log[i][3 * k - 1] = Answers(i)[k]
                  /\ log[i][3 * k] = [ev |-> "sleep", secs |-> 1, line |-> 95]
            /\ log[i][3 * n - 2].ev = "get"
            /\ log[i][3 * n - 1] = Answers(i)[n]
            /\ log[i][3 * n].ev = "reply"
            /\ result[i] = Raise(CauseOf(Answers(i)[n]))

\* C4 witness: three failed attempts, a timeout first and a refused
\* connection last.
C4_Witness ==
    /\ max_retries[1] = 3
    /\ AllTransportFailures(1)
    /\ Answers(1)[1] = [ev |-> "fail", cause |-> "Timeout"]
    /\ Answers(1)[3] = [ev |-> "fail", cause |-> "ConnectionError"]
    /\ pc[1] = "done"

\* C5: each handler invocation sends exactly one reply, whatever the fetch
\* does: never two, one from the moment reply_text is called, and a started
\* handler that has not replied yet always has a step to take.
C5_ExactlyOneReply ==
    \A i \in Invocations :
        /\ Len(replies[i]) <= 1
        /\ pc[i] \in {"replying", "done"} <=> Len(replies[i]) = 1
        /\ pc[i] \in {"replying", "done"} <=> FetchOver(i)
        /\ (pc[i] \in {"get", "sleeping"} /\ loop \in {0, i}) => ENABLED Step(i)

\* C5 witness: a /weekly handler that ended with one reply after its three
\* attempts were all used up by rate-limit waits.
C5_Witness ==
    /\ pc[1] = "done"
    /\ cmd[1] = "weekly"
    /\ max_retries[1] = 3
    /\ AllRateLimited(1)
    /\ Len(Answers(1)) = 3
    /\ Len(replies[1]) = 1

\* C6: a response with remaining <= 0 and reset_seconds = r > 0 is followed
\* by exactly one sleep, of r seconds, taken at the rate-limit wait (not the
\* one-second retry wait); what comes after that sleep is the next GET or the
\* end of the fetch, never a second sleep; and the GETs stay within
\* max_retries.
C6_OneWaitOfResetSeconds ==
    \A i \in Invocations : \A k \in 1..Len(log[i]) :
        (log[i][k].ev = "response" /\ RateLimited(log[i][k].response)) =>
            /\ k < Len(log[i])
            /\ log[i][k + 1] = [ev |-> "sleep",
                                secs |-> ResetOf(log[i][k].response.headers), line |-> 76]
            /\ k + 2 <= Len(log[i]) => log[i][k + 2].ev \in {"get", "reply"}
            /\ Len(Gets(i)) <= max_retries[i]

\* C6 witness: remaining=0, reset=5 on the first attempt, a 5-second sleep,
\* then the second GET, which succeeds.
C6_Witness ==
    /\ Len(log[1]) >= 5
    /\ log[1][2].ev = "response"
    /\ log[1][2].response.headers = Headers(<<"0">>, <<"5">>)
    /\ log[1][3] = [ev |-> "sleep", secs |-> 5, line |-> 76]
    /\ log[1][4] = [ev |-> "get", attempt |-> 1]
    /\ IsSuccess(result[1])

\* invocation j has something to do: its command waits to be handled, or the
\* sleep or the reply it awaits can return
HasWork(j) == j \in queue \/ pc[j] \in {"sleeping", "replying"}

\* C7: while an invocation is suspended in the fetch loop, on the network
\* request or on a wait, another invocation that has something to do can
\* take its step.
C7_SuspendedDoesNotBlock ==
    \A i \in Invocations : \A j \in Invocations \ {i} :
        (pc[i] \in {"get", "sleeping"} /\ HasWork(j)) => ENABLED Step(j)

\* (the part of C7 that holds: an invocation in asyncio.sleep blocks nobody)
SleepDoesNotBlock ==
    \A i \in Invocations : \A j \in Invocations \ {i} :
        (pc[i] = "sleeping" /\ pc[j] # "get" /\ HasWork(j)) => ENABLED Step(j)

\* C8: check_rate_limit decides on remaining and reset alone: whenever the
\* headers are numbers it returns reset when remaining <= 0 and 0 when
\* remaining > 0, whatever limit is and whatever was asked before; absent
\* headers count as remaining=4 and reset=0, so no headers at all advise 0.
C8_AdviseIsPureDecision ==
    /\ HeadersParse(headers_in) =>
          /\ ~wait_out.raised
          /\ RemainingOf(headers_in) <= 0 => wait_out.value = ResetOf(headers_in)
          /\ RemainingOf(headers_in) > 0 => wait_out.value = 0
    /\ H_REMAINING \notin DOMAIN headers_in /\ HeadersParse(headers_in) => wait_out.value = 0
    /\ headers_in = NoHeaders => wait_out = [raised |-> FALSE, value |-> 0]

\* C8 witness: limit=0, remaining=0, reset=60 advises 60.
C8_Witness ==
    /\ headers_in = (H_LIMIT :> <<"0">>) @@ (H_REMAINING :> <<"0">>) @@ (H_RESET :> <<"6", "0">>)
    /\ wait_out = [raised |-> FALSE, value |-> 60]

\* the hits of the payload, read record by record
GroupAt(k) == IF "path" \in DOMAIN hits_in[k] THEN hits_in[k].path ELSE "Unknown"
CountAt(k) == IF "count" \in DOMAIN hits_in[k] THEN hits_in[k].count ELSE 0
UniqueAt(k) == "is_unique" \in DOMAIN hits_in[k] /\ hits_in[k].is_unique

RECURSIVE SumOver(_)
SumOver(K) ==
    IF K = {} THEN 0
    ELSE LET k == CHOOSE x \in K : TRUE IN CountAt(k) + SumOver(K \ {k})

BothReplies == {message_out.stats, message_out.weekly}

\* C9: the reported pageviews are the sum of count over all hits and the
\* reported unique visitors are the number of hits flagged is_unique, each
\* counting 1 whatever its count; an empty payload reports 0 and 0 and no top
\* paths; the documented example reports 18 pageviews and 2 visitors.
C9_Totals ==
    \A m \in BothReplies :
        /\ m[2] = [line |-> "visitors",
                   n |-> Cardinality({k \in 1..Len(hits_in) : UniqueAt(k)})]
        /\ m[3] = [line |-> "pageviews", n |-> SumOver(1..Len(hits_in))]
        /\ hits_in = <<>> => (Len(m) = 3 /\ m[2].n = 0 /\ m[3].n = 0)
        /\ hits_in = ExampleHits => (m[2].n = 2 /\ m[3].n = 18)

\* C9 witness: a payload whose unique hits have counts other than 1.
C9_Witness ==
    /\ Len(hits_in) = 3
    /\ \E k \in 1..3 : UniqueAt(k) /\ CountAt(k) = 2
    /\ \E k \in 1..3 : UniqueAt(k) /\ "count" \notin DOMAIN hits_in[k]
    /\ \E k \in 1..3 : ~UniqueAt(k) /\ CountAt(k) = 1
    /\ message_out.stats[2].n = 2
    /\ message_out.stats[3].n = 3

Groups == {GroupAt(k) : k \in 1..Len(hits_in)}

\* the sum of count over the first k hits of group p
RECURSIVE GroupSumTo(_, _)
GroupSumTo(p, k) ==
    IF k = 0 THEN 0
    ELSE GroupSumTo(p, k - 1) + (IF GroupAt(k) = p THEN CountAt(k) ELSE 0)

GroupSum(p) == GroupSumTo(p, Len(hits_in))
FirstSeen(p) == CHOOSE k \in 1..Len(hits_in) : GroupAt(k) = p /\ \A m \in 1..(k - 1) : GroupAt(m) # p

\* group p ranks before group q: a larger sum, or the same sum and seen first
\* (a strict total order on the groups)
RanksBefore(p, q) ==
    LET sp == GroupSum(p)
        sq == GroupSum(q)
    IN  sp > sq \/ (sp = sq /\ FirstSeen(p) < FirstSeen(q))

\* the ranked lines of a reply: what follows the three summary lines and the header
RankedLines(m) == SubSeq(m, 5, Len(m))

\* C10: the ranked list groups the hits by path (a missing path is "Unknown"),
\* sums count per group, orders the groups by sum descending with equal sums
\* in the order their path was first seen, and keeps the first 5: at most 5
\* entries, each line ranking before the next one (so no path twice), and
\* every omitted group ranking after the last listed one; /stats and /weekly
\* list the same lines.
C10_RankedPaths ==
        LET r == RankedLines(message_out.stats)
            n == Len(r)
            groups == Groups
            listed == {r[a].path : a \in 1..n}
        IN  /\ RankedLines(message_out.weekly) = r
            /\ n = Min(5, Cardinality(groups))
            /\ \A a \in 1..n :
                  /\ r[a].line = "rank"
                  /\ r[a].i = a
                  /\ r[a].path \in groups
                  /\ r[a].views = GroupSum(r[a].path)
            /\ \A a \in 1..(n - 1) : RanksBefore(r[a].path, r[a + 1].path)
            /\ \A g \in groups \ listed : RanksBefore(r[n].path, g)
            /\ hits_in = ExampleHits =>
                  r = << [line |-> "rank", i |-> 1, path |-> "/a", views |-> 15],
                         [line |-> "rank", i |-> 2, path |-> "/b", views |-> 3] >>

\* C10 witness: six groups, one of them the missing path, with the sixth
\* left out on a tie with a listed group.
C10_Witness ==
    LET r == RankedLines(message_out.weekly)
        listed == {r[a].path : a \in 1..Len(r)}
    IN  /\ Cardinality(Groups) = 6
        /\ Len(r) = 5
        /\ "Unknown" \in listed
        /\ \E g \in Groups \ listed : \E p \in listed : GroupSum(g) = GroupSum(p)

\* the positions of a reply that hold a section header
HeaderAt(m) == {k \in 1..Len(m) : m[k].line = "header"}

\* the section header of each of the two replies
SectionHeader ==
    [stats |-> "Top pages:", weekly |-> "Top pages this week:"]

\* C11: the reply built from a fetched payload holds the "Top pages" header if
\* and only if there is at least one path to rank; the header then stands once,
\* right after the totals, and is followed to the end of the reply by exactly
\* min(5, number of distinct paths) ranked lines numbered 1, 2, ...; with
\* nothing to rank the reply is the title and the two totals and nothing else.
C11_TopPagesSection ==
    LET distinct == Cardinality(Groups)
    IN  \A w \in {"stats", "weekly"} :
           LET m == message_out[w]
           IN  /\ (HeaderAt(m) # {}) <=> (distinct > 0)
               /\ distinct = 0 => Len(m) = 3
               /\ distinct > 0 =>
                     /\ HeaderAt(m) = {4}
                     /\ m[4].header = SectionHeader[w]
                     /\ Len(m) = 4 + Min(TopN, distinct)
                     /\ \A k \in 5..Len(m) : m[k].line = "rank" /\ m[k].i = k - 4

\* C11 witness: a payload of a single hit, whose reply holds the header and
\* one ranked line numbered 1.
C11_Witness ==
    /\ Len(hits_in) = 1
    /\ HeaderAt(message_out.stats) = {4}
    /\ Len(message_out.stats) = 5
    /\ message_out.stats[5].i = 1
    /\ message_out.weekly[4].header = "Top pages this week:"

\* what belongs to invocation j alone: its arguments, its loop variable, what
\* it did (GETs, waits), how its fetch ended and what it replied
Own(j) ==
    <<pc[j], cmd[j], request[j], max_retries[j], attempt[j], log[j], result[j], replies[j]>>

\* C12: with two invocations interleaved in any order, a step of one
\* invocation leaves everything the other owns as it was (its attempt counter,
\* the GETs and waits it has made, its outcome and its reply), and no step at
\* all writes the globals both read (site, API key, base URL).
C12_InvocationsIndependent ==
    [][ /\ \A i \in Invocations :
              Step(i) => \A j \in Invocations \ {i} : Own(j)' = Own(j)
        /\ config' = config
        /\ \A i \in Invocations :
              request'[i] \in {NoRequest, handler_request(Environment)} ]_vars

\* C12 witness: both invocations in the middle of their fetches at once, each
\* asleep between two attempts, with different attempt counters.
C12_Witness ==
    /\ pc[1] = "sleeping" /\ pc[2] = "sleeping"
    /\ attempt[1] = 1 /\ attempt[2] = 0
    /\ Len(Gets(1)) = 2 /\ Len(Gets(2)) = 1
    /\ request[1] = request[2]
    /\ request[1].url = Environment.GOAT_BASE_URL \o <<"/stats/hits">>

\* the last thing a GET of invocation i ended in
LastAnswer(i) == Answers(i)[Len(Answers(i))]

\* C13: the rate-limit decision comes first. A response that asks for a wait
\* is followed at once by the sleep of line 76 for its reset seconds, whatever
\* its status and body: it is never what a Success or a ServiceError is made
\* from and never counted as a transport failure (no 1-second sleep, no
\* RequestException raised from it). A Success returns the body of a response
\* that asks for no wait, and a ServiceError is raised from such a response.
C13_RateLimitDecidedFirst ==
    \A i \in Invocations :
        /\ \A k \in 1..Len(log[i]) :
              (log[i][k].ev = "response" /\ RateLimited(log[i][k].response)) =>
                  /\ k < Len(log[i])
                  /\ log[i][k + 1] = [ev |-> "sleep",
                                      secs |-> ResetOf(log[i][k].response.headers),
                                      line |-> 76]
        /\ (IsSuccess(result[i]) \/ IsServiceError(result[i]) \/ IsTransportError(result[i])) =>
              /\ log[i][Len(log[i])].ev = "reply"
              /\ log[i][Len(log[i]) - 1] = LastAnswer(i)
              /\ LastAnswer(i).ev = "response" => NoWait(LastAnswer(i).response)
        /\ (IsSuccess(result[i]) \/ IsServiceError(result[i])) =>
              /\ LastAnswer(i).ev = "response"
              /\ raises_for_status(LastAnswer(i).response) = FALSE
              /\ HasErrorField(LastAnswer(i).response) = IsServiceError(result[i])
        /\ IsSuccess(result[i]) => result[i].data = LastAnswer(i).response.body.data

\* C13 witness: a response that asks for a wait and carries an error status
\* and an error body was slept on, and the next attempt returned a Success.
C13_Witness ==
    /\ Len(log[1]) >= 6
    /\ log[1][2].ev = "response"
    /\ RateLimited(log[1][2].response)
    /\ raises_for_status(log[1][2].response)
    /\ HasErrorField(log[1][2].response)
    /\ log[1][3].ev = "sleep" /\ log[1][3].line = 76
    /\ log[1][5].ev = "response" /\ NoWait(log[1][5].response)
    /\ IsSuccess(result[1])

\* what invocation i did after the answer to its last allowed GET
AfterLastAnswer(i) ==
    LET p == CHOOSE k \in 1..Len(log[i]) :
                 log[i][k].ev = "get" /\ log[i][k].attempt = max_retries[i] - 1
    IN  SubSeq(log[i], p + 2, Len(log[i]))

\* C14: on the last attempt the two kinds of retry differ. A transport
\* failure of the last attempt ends the fetch at once: the exception is raised
\* and the reply follows the failure with no wait in between. A rate-limited
\* last attempt is still slept on for its full reset seconds (line 76): the
\* fetch is not over and nothing is replied while that sleep lasts, and the
\* reply comes only after it has returned. (Before the last attempt a
\* transport failure is slept on for 1 second; no reply is ever sent during
\* a sleep.)
C14_LastAttempt ==
    \A i \in Invocations :
        /\ pc[i] = "sleeping" =>
              /\ ~FetchOver(i)
              /\ replies[i] = <<>>
              /\ log[i][Len(log[i])].ev = "sleep"
        /\ Len(Answers(i)) = max_retries[i] =>
              /\ TransportFailure(LastAnswer(i)) =>
                    /\ FetchOver(i)
                    /\ result[i] = Raise(CauseOf(LastAnswer(i)))
                    /\ AfterLastAnswer(i) = <<[ev |-> "reply"]>>
                    /\ Len(replies[i]) = 1
              /\ (LastAnswer(i).ev = "response" /\ RateLimited(LastAnswer(i).response)) =>
                    LET wait == [ev |-> "sleep",
                                 secs |-> ResetOf(LastAnswer(i).response.headers),
                                 line |-> 76]
                    IN  IF pc[i] = "sleeping"
                        THEN AfterLastAnswer(i) = <<wait>>
                        ELSE /\ AfterLastAnswer(i) = <<wait, [ev |-> "reply"]>>
                             /\ FetchOver(i)
                             /\ Len(replies[i]) = 1
        /\ \A k \in 1..Len(Answers(i)) :
              (k < max_retries[i] /\ TransportFailure(Answers(i)[k])) =>
                  \E n \in 1..(Len(log[i]) - 1) :
                      /\ log[i][n] = Answers(i)[k]
                      /\ log[i][n + 1] = [ev |-> "sleep", secs |-> RetryWait, line |-> 95]

\* C14 witness: a fetch of two attempts, the first a transport failure slept
\* on for 1 second, the last rate-limited and slept on for 5 seconds before
\* the reply.
C14_Witness ==
    /\ max_retries[1] = 2
    /\ pc[1] = "done"
    /\ Len(log[1]) = 7
    /\ log[1][2].ev = "fail"
    /\ log[1][3] = [ev |-> "sleep", secs |-> 1, line |-> 95]
    /\ log[1][5].ev = "response" /\ RateLimited(log[1][5].response)
    /\ log[1][6] = [ev |-> "sleep", secs |-> 5, line |-> 76]
    /\ log[1][7] = [ev |-> "reply"]
    /\ Len(replies[1]) = 1

\* a response with nothing remaining whose reset is immediate
Exhausted(r) == HeadersParse(r.headers) /\ RemainingOf(r.headers) <= 0 /\ ResetOf(r.headers) = 0
\* a response with requests remaining
HasRemaining(r) == HeadersParse(r.headers) /\ RemainingOf(r.headers) > 0

\* The response at place k of the log of invocation i was processed in its own
\* attempt, by its status and body alone: an error status or (with a requests
\* that raises it as one) a body that is not JSON is a transport failure, slept
\* on for 1 second or raised on the last attempt; an `error` or `errors` field
\* ends the fetch in a ServiceError; anything else is returned as the Success.
\* No rate-limit wait follows it.
ProcessedAt(i, k) ==
    LET r    == log[i][k].response
        last == log[i][k - 1].attempt = max_retries[i] - 1
        then == log[i][k + 1]
        retried == ~last /\ then = [ev |-> "sleep", secs |-> RetryWait, line |-> 95]
        ended(outcomes) == then = [ev |-> "reply"] /\ result[i] \in outcomes
    IN  /\ k < Len(log[i])
        /\ IF raises_for_status(r)
              THEN retried \/ (last /\ ended({Raise(HTTPError(r.status))}))
           ELSE IF ~r.body.json
              THEN retried \/ ended({Raise(ValueError)}) \/ (last /\ ended({Raise(JSONDecodeError)}))
           ELSE IF HasErrorField(r)
              THEN ended({Raise(ApiException(r.body.data))})
           ELSE ended({Return(r.body.data)})

\* C15: a response with remaining <= 0 and reset seconds 0 is advised a wait
\* of 0, so it causes neither a rate-limit wait nor a retry of its own: it is
\* processed in its attempt (status check, error-field check, Success) exactly
\* as a response with remaining > 0 is.
C15_ImmediateResetIsProcessed ==
    \A i \in Invocations : \A k \in 1..Len(log[i]) :
        log[i][k].ev = "response" =>
            /\ Exhausted(log[i][k].response) =>
                  /\ check_rate_limit(log[i][k].response.headers) = [raised |-> FALSE, value |-> 0]
                  /\ ProcessedAt(i, k)
            /\ HasRemaining(log[i][k].response) => ProcessedAt(i, k)

\* C15 witness: the first response has remaining 0 and reset 0 and is returned
\* as the Success after a single GET.
C15_Witness ==
    /\ Len(log[1]) = 3
    /\ log[1][2].ev = "response"
    /\ Exhausted(log[1][2].response)
    /\ log[1][2].response.headers = Headers(<<"0">>, <<"0">>)
    /\ result[1] = Return([hits |-> ExampleHits])
    /\ Len(Gets(1)) = 1
    /\ Sleeps(1) = <<>>

====
